---- MODULE Spec2Model ----
(***************************************************************************)
(* A model of source/module.c of aws-crt-nodejs: the thread-safe function  *)
(* dispatch layer (queue / dispatch / acquire / release / unref), the      *)
(* failed-callback handler, and the process context's construction and     *)
(* teardown.                                                               *)
(*                                                                         *)
(* The host environment (N-API) is modelled by what its thread-safe        *)
(* function API does: a thread count, a closing flag and a queue that the  *)
(* host's single execution thread drains.                                  *)
(***************************************************************************)
EXTENDS Integers, Sequences, FiniteSets, TLC

\* ------------------------------------------------------------------ bounds

\* Native threads that may each call aws_napi_queue_threadsafe_function once.
NThreads == 2
\* References the owning bindings may hold on the handle at the same time.
MaxOwnerRefs == 2
\* Runs of NAPI_MODULE_INIT in one process.
MaxLoads == 2
\* Code points of a text, bytes of a buffer or view, elements of a typed array.
MaxLen == 2

Threads == 1..NThreads

\* ------------------------------------------------------- program constants

\* A bounded queue of one invocation, in place of MaxQueueSize.
MaxQueueSizeOne == 0 + 1
\* max_queue_size handed to napi_create_threadsafe_function: 0 is unbounded.
MaxQueueSize == 0
\* initial_thread_count handed to napi_create_threadsafe_function.
InitialThreadCount == 1
\* The number of loops of the event-loop group.
ElgLoopCount == 1
\* resolver_options.max_entries
ResolverMaxEntries == 64
\* frames_per_stack handed to aws_mem_tracer_new
TracerFramesPerStack == 16
AWS_MEMTRACE_NONE == 0
AWS_MEMTRACE_STACKS == 2

NULL == "NULL"
TSFN == "tsfn"
Handles == {NULL, TSFN}

VARIABLES
    \* the host's thread-safe function object
    thread_count,       \* its reference count
    is_closing,         \* set by an abort release and by the host's finalization
    tsfn_refd,          \* whether it keeps the host's event loop alive
    queue,              \* queued invocations, each the id of the thread that queued it
    dropped,            \* queued invocations the host drained without dispatching
    \* the callers
    tpc,                \* native thread -> position in aws_napi_queue_threadsafe_function
    tstatus,            \* native thread -> the status its queue call returned
    ownerRefs,          \* references held by the owning bindings
    lastOp,             \* the last acquire/release/unref/queue made by a binding
    \* the host thread
    hpc,                \* position in aws_napi_dispatch_threadsafe_function
    call_status,        \* dispatch's local call_status
    calls,              \* invocations of the host callable by the current dispatch
    logs,               \* error log entries of the current dispatch's handler
    captured,           \* the exception the current dispatch's handler took from the host
    native_strings,     \* native strings the current dispatch's handler made, not destroyed
    exception_pending,  \* the host has a pending exception
    dispatchStarted,    \* dispatch executions begun
    dispatchReturned,   \* dispatch executions that returned
    lastRet,            \* what the last returned dispatch did
    \* the process
    proc,               \* "running" or "aborted" (a fatal assertion fired)
    abortSite,          \* where the fatal assertion fired
    \* the process context
    ipc,                \* position in NAPI_MODULE_INIT / s_napi_context_finalize
    loads,              \* runs of NAPI_MODULE_INIT begun
    envLevel,           \* AWS_CRT_MEMORY_TRACING in the environment the module is loaded in
    s_allocator,
    s_node_uv_elg,
    s_default_host_resolver,
    s_default_client_bootstrap,
    ctx,                \* number of a context -> the struct aws_napi_context
    wrapped,            \* the contexts bound to an exports object, not yet finalized
    built,              \* resource -> times constructed
    live,               \* resource -> instances constructed and not released
    events,             \* what was begun, constructed, joined and released, in order
    registered,         \* list -> times registered minus times unregistered
    \* value marshaling
    mpc,                \* position in the conversion of node_str
    node_str,           \* the host value being converted
    temp_buf,           \* the struct aws_byte_buf the conversion works on
    mstatus,            \* the status the last conversion step returned
    string,             \* what aws_string_new_from_napi returned
    view,               \* the bytes of the DataView made from the buffer
    released,           \* the memory handed to aws_mem_release
    status_text         \* the last status given to aws_napi_status_to_str, and its text

dispatchVars == <<thread_count, is_closing, tsfn_refd, queue, dropped, tpc, tstatus,
                  ownerRefs, lastOp, hpc, call_status, calls, logs, captured,
                  native_strings,
                  exception_pending,
                  dispatchStarted, dispatchReturned, lastRet>>
procVars == <<proc, abortSite>>
ctxVars == <<ipc, loads, envLevel, s_allocator, s_node_uv_elg, s_default_host_resolver,
             s_default_client_bootstrap, ctx, wrapped, built, live, events, registered>>
marshalVars == <<mpc, node_str, temp_buf, mstatus, string, view, released, status_text>>
vars == <<dispatchVars, procVars, ctxVars, marshalVars>>

\* The thread-safe function object's own state.
tsfnState == <<thread_count, is_closing, tsfn_refd, queue>>

\* ---------------------------------------------------------- host values

\* A host value: its napi_valuetype; for an object whether it is an ArrayBuffer, a
\* DataView or a typed array (and of which napi_typedarray_type); and its data: the
\* code points of a text, the bytes of a buffer or view, the elements of an array.
StringValue == [type |-> "string", kind |-> "none", atype |-> 0, data |-> <<97, 233>>]
UndefinedValue == [type |-> "undefined", kind |-> "none", atype |-> 0, data |-> <<>>]
NumberValue == [type |-> "number", kind |-> "none", atype |-> 0, data |-> <<>>]
ArrayBufferValue == [type |-> "object", kind |-> "arraybuffer", atype |-> 0, data |-> <<0, 255>>]
DataViewValue == [type |-> "object", kind |-> "dataview", atype |-> 0, data |-> <<0, 255>>]
TypedArrayValue(t) == [type |-> "object", kind |-> "typedarray", atype |-> t, data |-> <<1, 258>>]
PlainObjectValue == [type |-> "object", kind |-> "plain", atype |-> 0, data |-> <<>>]

\* What a native allocation made while converting a value may do.
AllocOutcomes == {"ok", "buf_oom", "str_oom"}

\* The outcomes of one conversion of a value: those of its allocations, and a
\* failure of its first (length) or second (decoding) call of
\* napi_get_value_string_utf8.
ConversionOutcomes == AllocOutcomes \cup {"length_failed", "utf8_failed"}

\* The sequences of at most MaxLen members of S.
Seqs(S) == UNION {[1..n -> S] : n \in 0..MaxLen}

RECURSIVE Flatten(_)
Flatten(seqs) == IF seqs = <<>> THEN <<>> ELSE Head(seqs) \o Flatten(Tail(seqs))

\* The UTF-8 encoding of a code point below 65536.
utf8(cp) ==
    IF cp < 128 THEN <<cp>>
    ELSE IF cp < 2048 THEN <<192 + (cp \div 64), 128 + (cp % 64)>>
    ELSE <<224 + (cp \div 4096), 128 + ((cp \div 64) % 64), 128 + (cp % 64)>>

\* napi_get_value_string_utf8: the bytes it writes for a text, before the terminator.
napi_get_value_string_utf8(v) == Flatten([i \in 1..Len(v.data) |-> utf8(v.data[i])])

\* The napi_typedarray_type values: int8 0, uint8 1, uint8_clamped 2, int16 3,
\* uint16 4, int32 5, uint32 6, float32 7, float64 8, bigint64 9, biguint64 10,
\* float16 11.
TypedArrayTypes == 0..11

\* The bytes the host stores per element of a typed array.
host_element_size(array_type) ==
    CASE array_type \in {0, 1, 2} -> 1
      [] array_type \in {3, 4, 11} -> 2
      [] array_type \in {5, 6, 7} -> 4
      [] OTHER -> 8

\* An element as the host stores it in `size` bytes, least significant first.
RECURSIVE element_bytes(_, _)
element_bytes(x, size) ==
    IF size = 0 THEN <<>> ELSE <<x % 256>> \o element_bytes(x \div 256, size - 1)

\* The bytes of the storage behind an ArrayBuffer, a DataView or a typed array.
storage(v) ==
    IF v.kind = "typedarray"
    THEN Flatten([i \in 1..Len(v.data) |->
                     element_bytes(v.data[i], host_element_size(v.atype))])
    ELSE v.data

\* The host values given to the conversions.
CodePoints == {97, 233}
ByteValues == {0, 255}
ElementValues == {1, 258}
HostValues ==
    [type : {"string"}, kind : {"none"}, atype : {0}, data : Seqs(CodePoints)]
    \cup [type : {"object"}, kind : {"arraybuffer", "dataview"}, atype : {0},
          data : Seqs(ByteValues)]
    \cup [type : {"object"}, kind : {"typedarray"}, atype : TypedArrayTypes,
          data : Seqs(ElementValues)]
    \cup {UndefinedValue, NumberValue, PlainObjectValue}

\* napi_typedarray_type -> element size, as the switch of
\* aws_byte_buf_init_from_napi computes it (0 when no case matches).
element_size(array_type) ==
    CASE array_type \in {0, 1, 2} -> 1
      [] array_type \in {3, 4} -> 2
      [] array_type \in {5, 6, 7} -> 4
      [] array_type \in {8, 9, 10} -> 8
      [] OTHER -> 0

\* A struct aws_byte_buf; bytes is what the memory at buffer holds, up to capacity.
\* buffer: NULL, "heap" (allocated by aws_byte_buf_init), "host" (the storage of the
\* host value) or "indeterminate".
ZeroBuf == [allocator |-> NULL, buffer |-> NULL, len |-> 0, capacity |-> 0, bytes |-> <<>>]

\* A struct aws_byte_buf declared and not initialized: what its allocator field
\* holds is indeterminate, null or not.
UninitializedBufs ==
    {[ZeroBuf EXCEPT !.allocator = a, !.buffer = "indeterminate"] :
        a \in {NULL, "indeterminate"}}

\* aws_byte_buf_init_from_napi that counts the terminator in the length of a text.
init_from_napi_len_with_terminator(buf, v, mem) ==
    IF v.type = "string"
    THEN LET utf == napi_get_value_string_utf8(v)
         IN  [status |-> "napi_ok",
              buf |-> [allocator |-> "aws_napi_get_allocator", buffer |-> "heap",
                       len |-> Len(utf) + 1, capacity |-> Len(utf) + 1,
                       bytes |-> Append(utf, 0)]]
    ELSE IF v.type = "object" /\ v.kind \in {"arraybuffer", "dataview", "typedarray"}
    THEN [status |-> "napi_ok",
          buf |-> [buf EXCEPT !.buffer = "host", !.len = Len(storage(v)),
                              !.capacity = Len(storage(v)), !.bytes = storage(v)]]
    ELSE [status |-> "napi_invalid_arg", buf |-> buf]

\* aws_byte_buf_init_from_napi(buf, env, node_str): the status, and *buf afterwards.
\* A text is copied, with its terminator, into memory of aws_napi_get_allocator();
\* for an ArrayBuffer, a DataView and a typed array buffer, len and capacity are
\* set to the host's storage and the allocator field is left as it was. When the
\* host fails to decode the text into the allocated memory, the status is returned
\* at once and *buf keeps the memory.
aws_byte_buf_init_from_napi(buf, v, mem) ==
    IF v.type = "string"
    THEN IF mem = "length_failed"
         THEN [status |-> "napi_generic_failure", buf |-> buf]
         ELSE IF mem = "buf_oom"
         THEN [status |-> "napi_generic_failure", buf |-> ZeroBuf]
         ELSE IF mem = "utf8_failed"
         THEN [status |-> "napi_generic_failure",
               buf |-> [allocator |-> "aws_napi_get_allocator", buffer |-> "heap",
                        len |-> 0, capacity |-> Len(napi_get_value_string_utf8(v)) + 1,
                        bytes |-> <<>>]]
         ELSE LET utf == napi_get_value_string_utf8(v)
              IN  [status |-> "napi_ok",
                   buf |-> [allocator |-> "aws_napi_get_allocator", buffer |-> "heap",
                            len |-> Len(utf), capacity |-> Len(utf) + 1,
                            bytes |-> Append(utf, 0)]]
    ELSE IF v.type = "object" /\ v.kind \in {"arraybuffer", "dataview"}
    THEN [status |-> "napi_ok",
          buf |-> [buf EXCEPT !.buffer = "host", !.len = Len(v.data),
                              !.capacity = Len(v.data), !.bytes = v.data]]
    ELSE IF v.type = "object" /\ v.kind = "typedarray"
    THEN LET length == Len(v.data) * element_size(v.atype)
         IN  [status |-> "napi_ok",
              buf |-> [buf EXCEPT !.buffer = "host", !.len = length,
                                  !.capacity = length,
                                  !.bytes = SubSeq(storage(v), 1, length)]]
    ELSE [status |-> "napi_invalid_arg", buf |-> buf]

\* aws_byte_buf_clean_up(buf): the memory it hands to aws_mem_release, and *buf
\* afterwards.
aws_byte_buf_clean_up(buf) ==
    [released |-> IF buf.allocator # NULL /\ buf.buffer # NULL THEN {buf.buffer} ELSE {},
     buf |-> ZeroBuf]

\* aws_string_new_from_napi: NULL, or the native string made of the value.
aws_string_new_from_napi(v, mem) ==
    LET temp_buf_init == aws_byte_buf_init_from_napi(ZeroBuf, v, mem)
    IN  IF temp_buf_init.status # "napi_ok" THEN NULL
        ELSE IF mem = "str_oom" THEN NULL
        ELSE "string"

\* aws_napi_create_dataview_from_byte_cursor(env, cur, result) for the cursor over
\* a buffer: the status and the bytes of the DataView made.
aws_napi_create_dataview_from_byte_cursor(buf, host) ==
    IF host # "napi_ok" THEN [status |-> host, view |-> <<>>]
    ELSE [status |-> "napi_ok", view |-> SubSeq(buf.bytes, 1, buf.len)]

\* The napi_status values aws_napi_status_to_str has a case for, and others.
EnumeratedStatuses ==
    {"napi_ok", "napi_invalid_arg", "napi_object_expected", "napi_string_expected",
     "napi_name_expected", "napi_function_expected", "napi_number_expected",
     "napi_boolean_expected", "napi_array_expected", "napi_generic_failure",
     "napi_pending_exception", "napi_cancelled", "napi_escape_called_twice",
     "napi_handle_scope_mismatch", "napi_callback_scope_mismatch", "napi_queue_full",
     "napi_closing", "napi_bigint_expected"}
OtherStatuses ==
    {"napi_date_expected", "napi_arraybuffer_expected",
     "napi_detachable_arraybuffer_expected", "napi_would_deadlock",
     "napi_no_external_buffers_allowed", "napi_cannot_run_js", "out_of_range"}

\* aws_napi_status_to_str whose default text is that of napi_ok.
status_to_str_default_ok(status) ==
    IF status \in EnumeratedStatuses THEN status ELSE "OK"

\* aws_napi_status_to_str(status)
aws_napi_status_to_str(status) ==
    CASE status = "napi_ok" -> "OK"
      [] status = "napi_invalid_arg" -> "napi_invalid_arg: an invalid argument was supplied"
      [] status = "napi_object_expected" -> "napi_object_expected"
      [] status = "napi_string_expected" -> "napi_name_expected"
      [] status = "napi_name_expected" -> "napi_name_expected"
      [] status = "napi_function_expected" -> "napi_function_expected"
      [] status = "napi_number_expected" -> "napi_number_expected"
      [] status = "napi_boolean_expected" -> "napi_boolean_expected"
      [] status = "napi_array_expected" -> "napi_array_expected"
      [] status = "napi_generic_failure" -> "napi_generic_failure"
      [] status = "napi_pending_exception" -> "napi_pending_exception"
      [] status = "napi_cancelled" -> "napi_cancelled"
      [] status = "napi_escape_called_twice" -> "napi_escape_called_twice"
      [] status = "napi_handle_scope_mismatch" -> "napi_handle_scope_mismatch"
      [] status = "napi_callback_scope_mismatch" -> "napi_callback_scope_mismatch"
      [] status = "napi_queue_full" -> "napi_queue_full"
      [] status = "napi_closing" -> "napi_closing"
      [] status = "napi_bigint_expected" -> "napi_bigint_expected"
      [] OTHER -> "UNKNOWN"

\* ------------------------------------------------- fatal assertions

\* AWS_NAPI_ENSURE(env, call): a status other than napi_ok is a fatal assertion.
AWS_NAPI_ENSURE(status) == status = "napi_ok"

\* ------------------------------------------- s_handle_failed_callback

\* What the host callable threw: whether it is an Error, whether the host can coerce
\* it to a string (a Symbol cannot be), and its message and stack properties
\* ("throws": reading the property throws).
ThrowingGetter == [type |-> "throws", kind |-> "none", atype |-> 0, data |-> <<>>]
PropertyValues == {StringValue, UndefinedValue, ThrowingGetter}
ThrownValues ==
    [is_error : {TRUE}, coercible : {TRUE}, message : PropertyValues,
     stack : {StringValue, UndefinedValue, ThrowingGetter}]
    \cup [is_error : {FALSE}, coercible : BOOLEAN, message : {UndefinedValue},
          stack : {UndefinedValue}]

\* The host's answers while the callable's failure is handled.
\*   pending: napi_is_exception_pending;  fn_coercible: napi_coerce_to_string(function)
\*   succeeds;  mem: the outcome of the native allocations of each string extraction
\*   (a failure of either allocation makes aws_string_new_from_napi return NULL, so
\*   one failing outcome stands for both).
FailureEnvs ==
    [pending : BOOLEAN, thrown : ThrownValues, fn_coercible : BOOLEAN,
     mem : [1..3 -> {"ok", "buf_oom"}]]

\* The handler returned, or one of its ensured host calls failed (which leaves an
\* exception pending). captured: the exception it took from the host, if any.
\* strings: the native strings it made and has not given to aws_string_destroy.
Returned(l, what) ==
    [logs |-> l, fatal |-> FALSE, site |-> "none", pending |-> FALSE, captured |-> what,
     strings |-> {}]
Fatal(l, where, what) ==
    [logs |-> l, fatal |-> TRUE, site |-> where, pending |-> TRUE, captured |-> what,
     strings |-> {}]

\* A report of an Error that logs the stack trace before the message.
ReportError_stack_first(l, e) ==
    IF e.thrown.message.type = "throws"
    THEN Fatal(l, "napi_get_named_property(message)", "Error")
    ELSE IF aws_string_new_from_napi(e.thrown.message, e.mem[2]) = NULL
    THEN Returned(Append(l, "message_failed"), "Error")
    ELSE IF e.thrown.stack.type = "throws"
    THEN Fatal(l, "napi_get_named_property(stack)", "Error")
    ELSE IF aws_string_new_from_napi(e.thrown.stack, e.mem[3]) = NULL
    THEN Returned(l \o <<"Error", "stack_failed">>, "Error")
    ELSE Returned(l \o <<"Stack", "Error">>, "Error")

\* The part of s_handle_failed_callback that reports an Error: message, then stack.
\* Each of the two strings is given to aws_string_destroy once it is logged.
ReportError(l, e) ==
    IF e.thrown.message.type = "throws" THEN Fatal(l, "napi_get_named_property(message)", "Error")
    ELSE LET message == aws_string_new_from_napi(e.thrown.message, e.mem[2])
         IN  IF message = NULL THEN Returned(Append(l, "message_failed"), "Error")
             ELSE LET l2 == Append(l, "Error")
                  IN  IF e.thrown.stack.type = "throws"
                      THEN Fatal(l2, "napi_get_named_property(stack)", "Error")
                      ELSE LET stacktrace == aws_string_new_from_napi(e.thrown.stack, e.mem[3])
                           IN  IF stacktrace = NULL
                               THEN Returned(Append(l2, "stack_failed"), "Error")
                               ELSE Returned(Append(l2, "Stack"), "Error")

\* A report of a thrown value that gives up silently when its string form cannot
\* be extracted.
ReportOther_silent(l, e) ==
    IF ~e.thrown.coercible THEN Fatal(l, "napi_coerce_to_string(exception)", "other")
    ELSE IF aws_string_new_from_napi(StringValue, e.mem[2]) = NULL
    THEN Returned(l, "other")
    ELSE Returned(Append(l, "Error"), "other")

\* The part that reports a thrown value that is not an Error; error_str is logged
\* and the handler returns.
ReportOther(l, e) ==
    IF ~e.thrown.coercible THEN Fatal(l, "napi_coerce_to_string(exception)", "other")
    ELSE LET error_str == aws_string_new_from_napi(StringValue, e.mem[2])
         IN  IF error_str = NULL THEN Returned(Append(l, "tostring_failed"), "other")
             ELSE [Returned(Append(l, "Error"), "other") EXCEPT !.strings = {"error_str"}]

\* s_handle_failed_callback(env, function, reason): the entries it logs, whether one
\* of its ensured host calls failed, and whether an exception is pending afterwards.
s_handle_failed_callback(reason, e) ==
    IF ~e.pending THEN Returned(<<"extended_error_info">>, "none")
    ELSE IF ~e.fn_coercible
    THEN Fatal(<<>>, "napi_coerce_to_string(function)",
               IF e.thrown.is_error THEN "Error" ELSE "other")
    ELSE LET function_str == aws_string_new_from_napi(StringValue, e.mem[1])
             l == IF function_str # NULL THEN <<"Calling">> ELSE <<>>
             r == IF e.thrown.is_error THEN ReportError(l, e) ELSE ReportOther(l, e)
         IN  IF function_str # NULL
             THEN [r EXCEPT !.strings = @ \cup {"function_str"}]
             ELSE r

\* ------------------------------------- the host's thread-safe function API

\* napi_acquire_threadsafe_function(func): the status, and the count it leaves.
napi_acquire_threadsafe_function(func) ==
    IF func = NULL THEN [status |-> "napi_invalid_arg", thread_count |-> thread_count]
    ELSE IF is_closing THEN [status |-> "napi_closing", thread_count |-> thread_count]
    ELSE [status |-> "napi_ok", thread_count |-> thread_count + 1]

\* napi_release_threadsafe_function(func, mode)
napi_release_threadsafe_function(func, mode) ==
    IF func = NULL \/ thread_count = 0
    THEN [status |-> "napi_invalid_arg", thread_count |-> thread_count,
          is_closing |-> is_closing]
    ELSE [status |-> "napi_ok", thread_count |-> thread_count - 1,
          is_closing |-> is_closing \/ mode = "napi_tsfn_abort"]

\* napi_call_threadsafe_function(func, data, napi_tsfn_nonblocking) with the queue
\* bound max_queue_size: a full queue refuses the call; a closing function refuses
\* it and gives up the caller's reference.
napi_call_threadsafe_function(func, data, max_queue_size) ==
    IF max_queue_size > 0 /\ Len(queue) >= max_queue_size /\ ~is_closing
    THEN [status |-> "napi_queue_full", thread_count |-> thread_count, queue |-> queue]
    ELSE IF is_closing
    THEN IF thread_count = 0
         THEN [status |-> "napi_invalid_arg", thread_count |-> thread_count, queue |-> queue]
         ELSE [status |-> "napi_closing", thread_count |-> thread_count - 1, queue |-> queue]
    ELSE [status |-> "napi_ok", thread_count |-> thread_count, queue |-> Append(queue, data)]

\* ----------------------------------------------- acquire, release, unref

\* The record of a call made by a binding: what it returned and whether it called
\* into the host.
Op(name, function, status, called) ==
    [op |-> name, handle |-> function, status |-> status, host_called |-> called]

hostThreadVars == <<hpc, call_status, calls, logs, captured, native_strings,
                    exception_pending,
                    dispatchStarted, dispatchReturned, lastRet>>

\* aws_napi_release_threadsafe_function without its test of the handle.
release_without_null_check(function, mode) ==
    /\ proc = "running"
    /\ LET r == napi_release_threadsafe_function(function, mode)
       IN  /\ thread_count' = r.thread_count
           /\ is_closing' = r.is_closing
           /\ ownerRefs' = ownerRefs - (thread_count - r.thread_count)
           /\ lastOp' = Op("release", function, r.status, TRUE)
    /\ UNCHANGED <<tsfn_refd, queue, dropped, tpc, tstatus, hostThreadVars, procVars, ctxVars, marshalVars>>

aws_napi_release_threadsafe_function(function, mode) ==
    /\ proc = "running"
    /\ IF function # NULL
       THEN LET r == napi_release_threadsafe_function(function, mode)
            IN  /\ thread_count' = r.thread_count
                /\ is_closing' = r.is_closing
                /\ ownerRefs' = ownerRefs - (thread_count - r.thread_count)
                /\ lastOp' = Op("release", function, r.status, TRUE)
       ELSE /\ UNCHANGED <<thread_count, is_closing, ownerRefs>>
            /\ lastOp' = Op("release", function, "napi_ok", FALSE)
    /\ UNCHANGED <<tsfn_refd, queue, dropped, tpc, tstatus, hostThreadVars, procVars, ctxVars, marshalVars>>

aws_napi_acquire_threadsafe_function(function) ==
    /\ proc = "running"
    /\ IF function # NULL
       THEN LET r == napi_acquire_threadsafe_function(function)
            IN  /\ thread_count' = r.thread_count
                /\ ownerRefs' = ownerRefs + (r.thread_count - thread_count)
                /\ lastOp' = Op("acquire", function, r.status, TRUE)
       ELSE /\ UNCHANGED <<thread_count, ownerRefs>>
            /\ lastOp' = Op("acquire", function, "napi_ok", FALSE)
    /\ UNCHANGED <<is_closing, tsfn_refd, queue, dropped, tpc, tstatus, hostThreadVars,
                   procVars, ctxVars, marshalVars>>

aws_napi_unref_threadsafe_function(function) ==
    /\ proc = "running"
    /\ IF function # NULL
       THEN /\ tsfn_refd' = FALSE
            /\ lastOp' = Op("unref", function, "napi_ok", TRUE)
       ELSE /\ UNCHANGED tsfn_refd
            /\ lastOp' = Op("unref", function, "napi_ok", FALSE)
    /\ UNCHANGED <<thread_count, is_closing, queue, dropped, tpc, tstatus, ownerRefs,
                   hostThreadVars, procVars, ctxVars, marshalVars>>

\* ------------------------------------------------------------- queue

\* aws_napi_queue_threadsafe_function, first statement: the ensured acquire.
queue_acquire(t, function) ==
    /\ proc = "running"
    /\ tpc[t] = "idle"
    /\ LET r == napi_acquire_threadsafe_function(function)
       IN  /\ thread_count' = r.thread_count
           /\ IF AWS_NAPI_ENSURE(r.status)
              THEN /\ tpc' = [tpc EXCEPT ![t] = "acquired"]
                   /\ UNCHANGED procVars
              ELSE /\ tpc' = [tpc EXCEPT ![t] = "fatal"]
                   /\ proc' = "aborted"
                   /\ abortSite' = "queue"
           /\ lastOp' = IF function = NULL
                        THEN Op("queue", function, r.status, TRUE)
                        ELSE lastOp
    /\ UNCHANGED <<is_closing, tsfn_refd, queue, dropped, tstatus, ownerRefs,
                   hostThreadVars, ctxVars, marshalVars>>

\* aws_napi_queue_threadsafe_function, second statement: the non-blocking call,
\* whose status is the function's.
queue_call(t) ==
    /\ proc = "running"
    /\ tpc[t] = "acquired"
    /\ LET r == napi_call_threadsafe_function(TSFN, t, MaxQueueSize)
       IN  /\ thread_count' = r.thread_count
           /\ queue' = r.queue
           /\ tstatus' = [tstatus EXCEPT ![t] = r.status]
           /\ tpc' = [tpc EXCEPT ![t] = IF r.status = "napi_ok" THEN "ok" ELSE "failed"]
    /\ UNCHANGED <<is_closing, tsfn_refd, dropped, ownerRefs, lastOp, hostThreadVars,
                   procVars, ctxVars, marshalVars>>

\* ------------------------------------------------------------ dispatch

callerVars == <<tpc, tstatus, ownerRefs, lastOp>>

\* The statuses napi_call_function gives: success, a thrown exception, or a failure
\* of the engine that leaves no exception pending.
CallOutcomes == {"napi_ok", "napi_pending_exception", "napi_generic_failure"}

\* The host's answers that go with a call's outcome: an exception is pending
\* exactly when the callable threw.
PendingEnvs == {e \in FailureEnvs : e.pending}
NothingThrown ==
    [pending |-> FALSE,
     thrown |-> [is_error |-> FALSE, coercible |-> TRUE, message |-> UndefinedValue,
                 stack |-> UndefinedValue],
     fn_coercible |-> TRUE, mem |-> [i \in 1..3 |-> "ok"]]
EnvsFor(status) ==
    IF status = "napi_pending_exception" THEN PendingEnvs ELSE {NothingThrown}

\* The host thread takes the next queued invocation and runs the binding's call_js
\* callback with a live environment, which calls
\* aws_napi_dispatch_threadsafe_function.
call_js ==
    /\ proc = "running"
    /\ hpc = "idle"
    /\ ~is_closing
    /\ queue # <<>>
    /\ queue' = Tail(queue)
    /\ hpc' = "call"
    /\ call_status' = "napi_ok"
    /\ calls' = 0
    /\ logs' = <<>>
    /\ captured' = "none"
    /\ native_strings' = {}
    /\ dispatchStarted' = dispatchStarted + 1
    /\ UNCHANGED <<thread_count, is_closing, tsfn_refd, dropped, callerVars,
                   exception_pending, dispatchReturned, lastRet, procVars, ctxVars, marshalVars>>

\* aws_napi_dispatch_threadsafe_function up to the release: the receiver, the call
\* of the host callable and, when it failed, s_handle_failed_callback.
dispatch_call(this_ptr, status, e) ==
    /\ proc = "running"
    /\ hpc = "call"
    /\ calls' = calls + 1
    /\ call_status' = status
    /\ IF status = "napi_ok"
       THEN /\ hpc' = "release"
            /\ UNCHANGED <<logs, captured, native_strings, exception_pending, procVars>>
       ELSE LET r == s_handle_failed_callback(status, e)
            IN  /\ logs' = r.logs
                /\ captured' = r.captured
                /\ native_strings' = r.strings
                /\ exception_pending' = r.pending
                /\ IF r.fatal
                   THEN /\ hpc' = "fatal"
                        /\ proc' = "aborted"
                        /\ abortSite' = "s_handle_failed_callback"
                   ELSE /\ hpc' = "release"
                        /\ UNCHANGED procVars
    /\ UNCHANGED <<tsfnState, dropped, callerVars, dispatchStarted, dispatchReturned,
                   lastRet, ctxVars, marshalVars>>

\* The return of a dispatch that releases the handle only when the call succeeded.
dispatch_release_unless_failed ==
    /\ proc = "running"
    /\ hpc = "release"
    /\ LET r == IF call_status # "napi_ok"
                THEN [status |-> "napi_ok", thread_count |-> thread_count,
                      is_closing |-> is_closing]
                ELSE napi_release_threadsafe_function(TSFN, "napi_tsfn_release")
       IN  /\ thread_count' = r.thread_count
           /\ is_closing' = r.is_closing
           /\ lastRet' = [status |-> IF call_status # "napi_ok" THEN call_status
                                     ELSE r.status,
                          call_status |-> call_status,
                          release_status |-> r.status,
                          released |-> thread_count - r.thread_count,
                          calls |-> calls,
                          logs |-> logs,
                          captured |-> captured,
                          pending |-> exception_pending]
    /\ hpc' = "idle"
    /\ dispatchReturned' = dispatchReturned + 1
    /\ UNCHANGED <<tsfn_refd, queue, dropped, callerVars, call_status, calls, logs,
                   captured, native_strings, exception_pending, dispatchStarted, procVars,
                   ctxVars, marshalVars>>

\* aws_napi_dispatch_threadsafe_function, the release and the return.
dispatch_release ==
    /\ proc = "running"
    /\ hpc = "release"
    /\ LET r == napi_release_threadsafe_function(TSFN, "napi_tsfn_release")
       IN  /\ thread_count' = r.thread_count
           /\ is_closing' = r.is_closing
           /\ lastRet' = [status |-> IF call_status # "napi_ok" THEN call_status
                                     ELSE r.status,
                          call_status |-> call_status,
                          release_status |-> r.status,
                          released |-> thread_count - r.thread_count,
                          calls |-> calls,
                          logs |-> logs,
                          captured |-> captured,
                          pending |-> exception_pending]
    /\ hpc' = "idle"
    /\ dispatchReturned' = dispatchReturned + 1
    /\ UNCHANGED <<tsfn_refd, queue, dropped, callerVars, call_status, calls, logs,
                   captured, native_strings, exception_pending, dispatchStarted, procVars,
                   ctxVars, marshalVars>>

\* The host finalizes a function whose count reached zero with nothing queued.
tsfn_finalize ==
    /\ proc = "running"
    /\ hpc = "idle"
    /\ ~is_closing
    /\ thread_count = 0
    /\ queue = <<>>
    /\ is_closing' = TRUE
    /\ UNCHANGED <<thread_count, tsfn_refd, queue, dropped, callerVars, hostThreadVars,
                   procVars, ctxVars, marshalVars>>

\* The host empties the queue of a closing function: the bindings' call_js callbacks
\* get no environment and do not dispatch.
tsfn_drain ==
    /\ proc = "running"
    /\ hpc = "idle"
    /\ is_closing
    /\ queue # <<>>
    /\ queue' = <<>>
    /\ dropped' = dropped + Len(queue)
    /\ UNCHANGED <<thread_count, is_closing, tsfn_refd, callerVars, hostThreadVars,
                   procVars, ctxVars, marshalVars>>

\* ------------------------------------------------- the process context

Resources == {"allocator", "context", "logger", "elg", "resolver", "bootstrap"}
Lists == {"error_info", "log_subject", "cal", "http", "mqtt", "auth"}

NullAllocator == [kind |-> "null", level |-> 0]
DefaultAllocator == [kind |-> "default", level |-> 0]
GarbageAllocator == [kind |-> "garbage", level |-> 0]
TracingAllocator(level) == [kind |-> "tracer", level |-> level]

\* A pointer to a resource is the number of the instance; 0 is the null pointer.
NullElg == [id |-> 0, loop_count |-> 0]
NullResolver == [id |-> 0, max_entries |-> 0, el_group |-> 0]
NullBootstrap == [id |-> 0, event_loop_group |-> 0, host_resolver |-> 0]
NullContext == [id |-> 0, allocator |-> NullAllocator, logger |-> 0, freed |-> FALSE]

\* AWS_CRT_MEMORY_TRACING: unset, or the integer atoi reads from it.
EnvLevels == {[set |-> FALSE, value |-> 0]} \cup [set : {TRUE}, value : -1..3]

Idle == [fn |-> "idle", i |-> 0, allocator |-> NullAllocator]

\* NAPI_MODULE_INIT with the client bootstrap made before the host resolver.
NAPI_MODULE_INIT_bootstrap_first ==
    << "s_install_crash_handler", "aws_napi_get_allocator",
       "aws_mem_calloc", "napi_wrap", "aws_napi_logger_new",
       "library_init", "aws_register_error_info", "aws_register_log_subject_info_list",
       "aws_event_loop_group_new_default", "aws_client_bootstrap_new",
       "aws_host_resolver_new_default", "register_functions" >>

\* s_napi_context_finalize with the logger destroyed before the threads are joined.
s_napi_context_finalize_logger_first ==
    << "aws_client_bootstrap_release", "aws_host_resolver_release",
       "aws_event_loop_group_release", "aws_napi_logger_destroy",
       "aws_thread_join_all_managed",
       "aws_unregister_log_subject_info_list", "aws_unregister_error_info",
       "library_clean_up", "aws_mem_release",
       "aws_mem_tracer_destroy" >>

\* The statements of NAPI_MODULE_INIT that act on the process-wide state, in
\* order; s_napi_context_new's are in the place of its call.
NAPI_MODULE_INIT_steps ==
    << "s_install_crash_handler", "aws_napi_get_allocator",
       "aws_mem_calloc", "napi_wrap", "aws_napi_logger_new",
       "library_init", "aws_register_error_info", "aws_register_log_subject_info_list",
       "aws_event_loop_group_new_default", "aws_host_resolver_new_default",
       "aws_client_bootstrap_new", "register_functions" >>

\* The statements of s_napi_context_finalize, in order.
s_napi_context_finalize_steps ==
    << "aws_client_bootstrap_release", "aws_host_resolver_release",
       "aws_event_loop_group_release", "aws_thread_join_all_managed",
       "aws_unregister_log_subject_info_list", "aws_unregister_error_info",
       "library_clean_up", "aws_napi_logger_destroy", "aws_mem_release",
       "aws_mem_tracer_destroy" >>

Steps(fn) == IF fn = "init" THEN NAPI_MODULE_INIT_steps ELSE s_napi_context_finalize_steps

\* The host thread is about to run statement `name` of `fn`.
At(fn, name) ==
    /\ proc = "running"
    /\ ipc.fn = fn
    /\ Steps(fn)[ipc.i] = name

\* Go on to the next statement, or return.
Advance(local) ==
    IF ipc.i = Len(Steps(ipc.fn)) THEN Idle
    ELSE [fn |-> ipc.fn, i |-> ipc.i + 1, allocator |-> local]

Construct(r) ==
    /\ built' = [built EXCEPT ![r] = @ + 1]
    /\ live' = [live EXCEPT ![r] = @ + 1]
    /\ events' = Append(events, <<"new", r>>)

Release(r) ==
    /\ live' = [live EXCEPT ![r] = @ - 1]
    /\ events' = Append(events, <<"release", r>>)
    /\ UNCHANGED built

FatalAssert(where) ==
    /\ proc' = "aborted"
    /\ abortSite' = where

staticVars == <<s_allocator, s_node_uv_elg, s_default_host_resolver,
                s_default_client_bootstrap>>
resourceVars == <<built, live, events>>

\* aws_napi_get_allocator() with nothing cached: the default allocator when
\* AWS_CRT_MEMORY_TRACING is unset, else a tracer made by aws_mem_tracer_new over the
\* default allocator with the level read, AWS_MEMTRACE_NONE when it is out of range.
resolve_allocator ==
    IF ~envLevel.set THEN DefaultAllocator
    ELSE LET level == IF envLevel.value < AWS_MEMTRACE_NONE
                         \/ envLevel.value > AWS_MEMTRACE_STACKS
                      THEN AWS_MEMTRACE_NONE ELSE envLevel.value
         IN  TracingAllocator(level)

\* aws_napi_get_allocator(): the allocator it returns (and caches in s_allocator).
aws_napi_get_allocator ==
    IF s_allocator # NullAllocator THEN s_allocator ELSE resolve_allocator

\* aws_napi_get_node_elg() and aws_napi_get_default_client_bootstrap()
aws_napi_get_node_elg == s_node_uv_elg
aws_napi_get_default_client_bootstrap == s_default_client_bootstrap

\* The host loads the module: NAPI_MODULE_INIT begins.
module_load ==
    /\ proc = "running"
    /\ ipc = Idle
    /\ loads < MaxLoads
    /\ loads' = loads + 1
    /\ ipc' = [fn |-> "init", i |-> 1, allocator |-> NullAllocator]
    /\ IF loads = 0 THEN envLevel' \in EnvLevels ELSE UNCHANGED envLevel
    /\ events' = Append(events, <<"begin", "init">>)
    /\ UNCHANGED <<dispatchVars, marshalVars, procVars, staticVars, ctx, wrapped, built, live,
                   registered>>

init_install_crash_handler ==
    /\ At("init", "s_install_crash_handler")
    /\ ipc' = Advance(ipc.allocator)
    /\ UNCHANGED <<dispatchVars, marshalVars, procVars, loads, envLevel, staticVars, ctx, wrapped,
                   resourceVars, registered>>

init_get_allocator ==
    /\ At("init", "aws_napi_get_allocator")
    /\ s_allocator' = aws_napi_get_allocator
    /\ ipc' = Advance(aws_napi_get_allocator)
    /\ IF s_allocator = NullAllocator
       THEN Construct("allocator")
       ELSE UNCHANGED resourceVars
    /\ UNCHANGED <<dispatchVars, marshalVars, procVars, loads, envLevel, s_node_uv_elg,
                   s_default_host_resolver, s_default_client_bootstrap, ctx, wrapped,
                   registered>>

\* s_napi_context_new: the context's memory.
init_context_calloc(ok) ==
    /\ At("init", "aws_mem_calloc")
    /\ IF ok
       THEN /\ ctx' = [ctx EXCEPT ![built["context"] + 1] =
                           [id |-> built["context"] + 1, allocator |-> ipc.allocator,
                            logger |-> 0, freed |-> FALSE]]
            /\ Construct("context")
            /\ ipc' = Advance(ipc.allocator)
            /\ UNCHANGED procVars
       ELSE /\ FatalAssert("s_napi_context_new")
            /\ UNCHANGED <<ctx, resourceVars, ipc>>
    /\ UNCHANGED <<dispatchVars, marshalVars, loads, envLevel, staticVars, wrapped, registered>>

\* s_napi_context_new: the context is bound to exports, with its finalizer.
init_napi_wrap(status) ==
    /\ At("init", "napi_wrap")
    /\ IF AWS_NAPI_ENSURE(status)
       THEN /\ wrapped' = Append(wrapped, built["context"])
            /\ ipc' = Advance(ipc.allocator)
            /\ UNCHANGED procVars
       ELSE /\ FatalAssert("napi_wrap")
            /\ UNCHANGED <<wrapped, ipc>>
    /\ UNCHANGED <<dispatchVars, marshalVars, loads, envLevel, staticVars, ctx, resourceVars,
                   registered>>

\* s_napi_context_new: the logger.
init_logger_new ==
    /\ At("init", "aws_napi_logger_new")
    /\ ctx' = [ctx EXCEPT ![built["context"]].logger = built["logger"] + 1]
    /\ Construct("logger")
    /\ ipc' = Advance(ipc.allocator)
    /\ UNCHANGED <<dispatchVars, marshalVars, procVars, loads, envLevel, staticVars, wrapped,
                   registered>>

Register(ls) == registered' = [l \in Lists |-> IF l \in ls THEN registered[l] + 1
                                               ELSE registered[l]]
Unregister(ls) == registered' = [l \in Lists |-> IF l \in ls THEN registered[l] - 1
                                                 ELSE registered[l]]

init_library_init ==
    /\ At("init", "library_init")
    /\ Register({"cal", "http", "mqtt", "auth"})
    /\ ipc' = Advance(ipc.allocator)
    /\ UNCHANGED <<dispatchVars, marshalVars, procVars, loads, envLevel, staticVars, ctx, wrapped,
                   resourceVars>>

init_register_error_info ==
    /\ At("init", "aws_register_error_info")
    /\ Register({"error_info"})
    /\ ipc' = Advance(ipc.allocator)
    /\ UNCHANGED <<dispatchVars, marshalVars, procVars, loads, envLevel, staticVars, ctx, wrapped,
                   resourceVars>>

init_register_log_subject ==
    /\ At("init", "aws_register_log_subject_info_list")
    /\ Register({"log_subject"})
    /\ ipc' = Advance(ipc.allocator)
    /\ UNCHANGED <<dispatchVars, marshalVars, procVars, loads, envLevel, staticVars, ctx, wrapped,
                   resourceVars>>

\* The event-loop group: asserted absent, made with one loop, asserted present.
init_elg_new(ok) ==
    /\ At("init", "aws_event_loop_group_new_default")
    /\ IF s_node_uv_elg # NullElg THEN
            /\ FatalAssert("s_node_uv_elg == NULL")
            /\ UNCHANGED <<s_node_uv_elg, resourceVars, ipc>>
       ELSE IF ~ok THEN
            /\ FatalAssert("s_node_uv_elg != NULL")
            /\ UNCHANGED <<s_node_uv_elg, resourceVars, ipc>>
       ELSE /\ s_node_uv_elg' = [id |-> built["elg"] + 1, loop_count |-> ElgLoopCount]
            /\ Construct("elg")
            /\ ipc' = Advance(ipc.allocator)
            /\ UNCHANGED procVars
    /\ UNCHANGED <<dispatchVars, marshalVars, loads, envLevel, s_allocator, s_default_host_resolver,
                   s_default_client_bootstrap, ctx, wrapped, registered>>

\* The default host resolver, on the event-loop group.
init_resolver_new(ok) ==
    /\ At("init", "aws_host_resolver_new_default")
    /\ IF s_default_host_resolver # NullResolver THEN
            /\ FatalAssert("s_default_host_resolver == NULL")
            /\ UNCHANGED <<s_default_host_resolver, resourceVars, ipc>>
       ELSE IF ~ok THEN
            /\ FatalAssert("s_default_host_resolver != NULL")
            /\ UNCHANGED <<s_default_host_resolver, resourceVars, ipc>>
       ELSE /\ s_default_host_resolver' =
                   [id |-> built["resolver"] + 1, max_entries |-> ResolverMaxEntries,
                    el_group |-> s_node_uv_elg.id]
            /\ Construct("resolver")
            /\ ipc' = Advance(ipc.allocator)
            /\ UNCHANGED procVars
    /\ UNCHANGED <<dispatchVars, marshalVars, loads, envLevel, s_allocator, s_node_uv_elg,
                   s_default_client_bootstrap, ctx, wrapped, registered>>

\* The default client bootstrap, on the event-loop group and the resolver.
init_bootstrap_new(ok) ==
    /\ At("init", "aws_client_bootstrap_new")
    /\ IF s_default_client_bootstrap # NullBootstrap THEN
            /\ FatalAssert("s_default_client_bootstrap == NULL")
            /\ UNCHANGED <<s_default_client_bootstrap, resourceVars, ipc>>
       ELSE IF ~ok THEN
            /\ FatalAssert("s_default_client_bootstrap != NULL")
            /\ UNCHANGED <<s_default_client_bootstrap, resourceVars, ipc>>
       ELSE /\ s_default_client_bootstrap' =
                   [id |-> built["bootstrap"] + 1,
                    event_loop_group |-> s_node_uv_elg.id,
                    host_resolver |-> s_default_host_resolver.id]
            /\ Construct("bootstrap")
            /\ ipc' = Advance(ipc.allocator)
            /\ UNCHANGED procVars
    /\ UNCHANGED <<dispatchVars, marshalVars, loads, envLevel, s_allocator, s_node_uv_elg,
                   s_default_host_resolver, ctx, wrapped, registered>>

\* The functions and classes are registered on exports, and the module is returned
\* (null when a registration fails; a failed class binding is a fatal assertion).
init_register_functions(status) ==
    /\ At("init", "register_functions")
    /\ IF AWS_NAPI_ENSURE(status)
       THEN /\ ipc' = Advance(ipc.allocator)
            /\ UNCHANGED procVars
       ELSE /\ FatalAssert("bind")
            /\ UNCHANGED ipc
    /\ UNCHANGED <<dispatchVars, marshalVars, loads, envLevel, staticVars, ctx, wrapped,
                   resourceVars, registered>>

\* The host collects exports: the finalizer of the first context bound begins.
finalizer_begin ==
    /\ proc = "running"
    /\ ipc = Idle
    /\ wrapped # <<>>
    /\ ipc' = [fn |-> "finalize", i |-> 1, allocator |-> NullAllocator]
    /\ events' = Append(events, <<"begin", "finalize">>)
    /\ UNCHANGED <<dispatchVars, marshalVars, procVars, loads, envLevel, staticVars, ctx, wrapped,
                   built, live, registered>>

\* The context the running finalizer was given as user_data.
user_data == Head(wrapped)

finalize_bootstrap_release ==
    /\ At("finalize", "aws_client_bootstrap_release")
    /\ Release("bootstrap")
    /\ ipc' = Advance(ipc.allocator)
    /\ UNCHANGED <<dispatchVars, marshalVars, procVars, loads, envLevel, staticVars, ctx, wrapped,
                   registered>>

finalize_resolver_release ==
    /\ At("finalize", "aws_host_resolver_release")
    /\ Release("resolver")
    /\ ipc' = Advance(ipc.allocator)
    /\ UNCHANGED <<dispatchVars, marshalVars, procVars, loads, envLevel, staticVars, ctx, wrapped,
                   registered>>

finalize_elg_release ==
    /\ At("finalize", "aws_event_loop_group_release")
    /\ Release("elg")
    /\ ipc' = Advance(ipc.allocator)
    /\ UNCHANGED <<dispatchVars, marshalVars, procVars, loads, envLevel, staticVars, ctx, wrapped,
                   registered>>

finalize_join_all ==
    /\ At("finalize", "aws_thread_join_all_managed")
    /\ events' = Append(events, <<"join", "threads">>)
    /\ ipc' = Advance(ipc.allocator)
    /\ UNCHANGED <<dispatchVars, marshalVars, procVars, loads, envLevel, staticVars, ctx, wrapped,
                   built, live, registered>>

finalize_unregister_log_subject ==
    /\ At("finalize", "aws_unregister_log_subject_info_list")
    /\ Unregister({"log_subject"})
    /\ ipc' = Advance(ipc.allocator)
    /\ UNCHANGED <<dispatchVars, marshalVars, procVars, loads, envLevel, staticVars, ctx, wrapped,
                   resourceVars>>

finalize_unregister_error_info ==
    /\ At("finalize", "aws_unregister_error_info")
    /\ Unregister({"error_info"})
    /\ ipc' = Advance(ipc.allocator)
    /\ UNCHANGED <<dispatchVars, marshalVars, procVars, loads, envLevel, staticVars, ctx, wrapped,
                   resourceVars>>

finalize_library_clean_up ==
    /\ At("finalize", "library_clean_up")
    /\ Unregister({"auth", "mqtt"})
    /\ ipc' = Advance(ipc.allocator)
    /\ UNCHANGED <<dispatchVars, marshalVars, procVars, loads, envLevel, staticVars, ctx, wrapped,
                   resourceVars>>

finalize_logger_destroy ==
    /\ At("finalize", "aws_napi_logger_destroy")
    /\ Release("logger")
    /\ ipc' = Advance(ipc.allocator)
    /\ UNCHANGED <<dispatchVars, marshalVars, procVars, loads, envLevel, staticVars, ctx, wrapped,
                   registered>>

\* aws_mem_release(ctx->allocator, ctx)
finalize_mem_release ==
    /\ At("finalize", "aws_mem_release")
    /\ ctx' = [ctx EXCEPT ![user_data].freed = TRUE]
    /\ Release("context")
    /\ ipc' = Advance(ipc.allocator)
    /\ UNCHANGED <<dispatchVars, marshalVars, procVars, loads, envLevel, staticVars, wrapped,
                   registered>>

\* The fields of *ctx a statement of the finalizer reads.
ctx_reads(statement) ==
    CASE statement = "aws_napi_logger_destroy" -> {"logger"}
      [] statement = "aws_mem_release" -> {"allocator"}
      [] statement = "aws_mem_tracer_destroy" -> {"allocator"}
      [] OTHER -> {}

\* What a read of the allocator field of a context gives: the field, or, once the
\* context's memory was released, whatever the memory holds by then.
ReadAllocator(c) ==
    IF c.freed THEN {c.allocator, DefaultAllocator, GarbageAllocator}
    ELSE {c.allocator}

\* The values the finalizer's reads of ctx->allocator may give.
FinalizerReads ==
    IF ipc.fn = "finalize" /\ wrapped # <<>> THEN ReadAllocator(ctx[user_data]) ELSE {}

\* The end of s_napi_context_finalize: the tracing allocator is destroyed and the
\* cached allocator reset. r1, r2 and r3 are what the reads of ctx->allocator in the
\* test, in the call of aws_mem_tracer_destroy and in the comparison with
\* s_allocator give. Destroying what is no tracing allocator crashes.
finalize_tracer_destroy(r1, r2, r3) ==
    /\ At("finalize", "aws_mem_tracer_destroy")
    /\ wrapped' = Tail(wrapped)
    /\ IF r1 = DefaultAllocator
       THEN /\ ipc' = Advance(ipc.allocator)
            /\ UNCHANGED <<s_allocator, resourceVars, procVars>>
       ELSE IF r2.kind # "tracer"
       THEN /\ proc' = "crashed"
            /\ abortSite' = "aws_mem_tracer_destroy"
            /\ UNCHANGED <<s_allocator, resourceVars, ipc>>
       ELSE /\ Release("allocator")
            /\ s_allocator' = IF s_allocator = r3 THEN NullAllocator ELSE s_allocator
            /\ ipc' = Advance(ipc.allocator)
            /\ UNCHANGED procVars
    /\ UNCHANGED <<dispatchVars, marshalVars, loads, envLevel, s_node_uv_elg, s_default_host_resolver,
                   s_default_client_bootstrap, ctx, registered>>

\* ------------------------------------------------------ value marshaling

NullString == [null |-> TRUE, bytes |-> <<>>]

\* aws_byte_buf_init_from_napi(&temp_buf, env, node_str), called by a binding.
marshal_init_from_napi(mem) ==
    /\ mpc = "start"
    /\ LET r == aws_byte_buf_init_from_napi(temp_buf, node_str, mem)
       IN  /\ temp_buf' = r.buf
           /\ mstatus' = r.status
           /\ mpc' = IF r.status = "napi_ok" THEN "inited" ELSE "failed"
    /\ UNCHANGED <<node_str, string, view, released, status_text, dispatchVars, procVars,
                   ctxVars>>

\* aws_string_new_from_napi(env, node_str) on its uninitialized temp_buf: the
\* conversion, the copy into a native string, aws_byte_buf_clean_up, the return.
string_new_from_napi(mem) ==
    /\ mpc = "start"
    /\ LET r == aws_byte_buf_init_from_napi(temp_buf, node_str, mem)
           c == aws_byte_buf_clean_up(r.buf)
       IN  /\ mstatus' = r.status
           /\ IF r.status # "napi_ok"
              THEN /\ string' = NullString
                   /\ temp_buf' = r.buf
                   /\ released' = released
                   /\ mpc' = "failed"
              ELSE /\ string' = IF mem = "str_oom" THEN NullString
                                ELSE [null |-> FALSE,
                                      bytes |-> SubSeq(r.buf.bytes, 1, r.buf.len)]
                   /\ temp_buf' = c.buf
                   /\ released' = released \cup c.released
                   /\ mpc' = "returned"
    /\ UNCHANGED <<node_str, view, status_text, dispatchVars, procVars, ctxVars>>

\* A binding makes a DataView of the buffer's bytes.
create_dataview_from_byte_cursor(host) ==
    /\ mpc = "inited"
    /\ LET r == aws_napi_create_dataview_from_byte_cursor(temp_buf, host)
       IN  /\ mstatus' = r.status
           /\ view' = r.view
    /\ mpc' = "viewed"
    /\ UNCHANGED <<node_str, temp_buf, string, released, status_text, dispatchVars, procVars,
                   ctxVars>>

\* A status is turned into its text for a log entry.
status_to_str(status) ==
    /\ mpc # "idle"
    /\ status_text.status = "none"
    /\ status_text' = [status |-> status, str |-> aws_napi_status_to_str(status)]
    /\ UNCHANGED <<mpc, node_str, temp_buf, mstatus, string, view, released,
                   dispatchVars, procVars, ctxVars>>

\* ------------------------------------------------------ specifications

InitProcess ==
    /\ thread_count = InitialThreadCount
    /\ is_closing = FALSE
    /\ tsfn_refd = TRUE
    /\ queue = <<>>
    /\ dropped = 0
    /\ tpc = [t \in Threads |-> "idle"]
    /\ tstatus = [t \in Threads |-> "none"]
    /\ ownerRefs = InitialThreadCount
    /\ lastOp = [op |-> "create", handle |-> TSFN, status |-> "napi_ok",
                 host_called |-> TRUE]
    /\ hpc = "idle"
    /\ call_status = "napi_ok"
    /\ calls = 0
    /\ logs = <<>>
    /\ captured = "none"
    /\ native_strings = {}
    /\ exception_pending = FALSE
    /\ dispatchStarted = 0
    /\ dispatchReturned = 0
    /\ lastRet = [status |-> "none", call_status |-> "none", release_status |-> "none",
                  released |-> 0, calls |-> 0, logs |-> <<>>, captured |-> "none",
                  pending |-> FALSE]
    /\ proc = "running"
    /\ abortSite = "none"
    /\ ipc = Idle
    /\ loads = 0
    /\ envLevel = [set |-> FALSE, value |-> 0]
    /\ s_allocator = NullAllocator
    /\ s_node_uv_elg = NullElg
    /\ s_default_host_resolver = NullResolver
    /\ s_default_client_bootstrap = NullBootstrap
    /\ ctx = [i \in 1..MaxLoads |-> NullContext]
    /\ wrapped = <<>>
    /\ built = [r \in Resources |-> 0]
    /\ live = [r \in Resources |-> 0]
    /\ events = <<>>
    /\ registered = [l \in Lists |-> 0]

\* No conversion is under way.
Init ==
    /\ InitProcess
    /\ mpc = "idle"
    /\ node_str = UndefinedValue
    /\ temp_buf = ZeroBuf
    /\ mstatus = "none"
    /\ string = NullString
    /\ view = <<>>
    /\ released = {}
    /\ status_text = [status |-> "none", str |-> "none"]

\* A host value is about to be converted into a buffer declared and not initialized.
InitMarshal ==
    /\ InitProcess
    /\ mpc = "start"
    /\ node_str \in HostValues
    /\ temp_buf \in UninitializedBufs
    /\ mstatus = "none"
    /\ string = NullString
    /\ view = <<>>
    /\ released = {}
    /\ status_text = [status |-> "none", str |-> "none"]

ReleaseModes == {"napi_tsfn_release", "napi_tsfn_abort"}

\* An owning binding takes another reference on the handle it holds.
OwnerAcquire ==
    /\ ownerRefs \in 1..(MaxOwnerRefs - 1)
    /\ aws_napi_acquire_threadsafe_function(TSFN)

\* An owning binding gives up a reference it holds.
OwnerRelease ==
    /\ ownerRefs >= 1
    /\ \E mode \in ReleaseModes : aws_napi_release_threadsafe_function(TSFN, mode)

OwnerUnref ==
    /\ ownerRefs >= 1
    /\ tsfn_refd
    /\ aws_napi_unref_threadsafe_function(TSFN)

\* A binding whose optional callback was never created uses its null handle.
NullAcquire == aws_napi_acquire_threadsafe_function(NULL)
NullRelease == \E mode \in ReleaseModes : aws_napi_release_threadsafe_function(NULL, mode)
NullUnref == aws_napi_unref_threadsafe_function(NULL)

Queue == \E t \in Threads : queue_acquire(t, TSFN) \/ queue_call(t)
NullQueue == \E t \in Threads : queue_acquire(t, NULL)

Dispatch ==
    \/ call_js
    \/ \E this_ptr \in {NULL, "receiver"}, status \in CallOutcomes :
          \E e \in EnvsFor(status) :
             dispatch_call(this_ptr, status, e)
    \/ dispatch_release

Host == tsfn_finalize \/ tsfn_drain

\* The dispatch layer used by native threads, owning bindings and the host thread.
Next == Queue \/ NullQueue \/ OwnerAcquire \/ OwnerRelease \/ OwnerUnref
        \/ NullAcquire \/ NullRelease \/ NullUnref \/ Dispatch \/ Host

Spec == Init /\ [][Next]_vars

\* The dispatch layer on a handle that stays live: its owner keeps its reference
\* while native threads queue invocations.
NextLive == Queue \/ Dispatch

SpecLive == Init /\ [][NextLive]_vars

ModuleInit ==
    \/ module_load
    \/ init_install_crash_handler
    \/ init_get_allocator
    \/ \E ok \in BOOLEAN : init_context_calloc(ok)
    \/ \E status \in {"napi_ok", "napi_generic_failure"} : init_napi_wrap(status)
    \/ init_logger_new
    \/ init_library_init
    \/ init_register_error_info
    \/ init_register_log_subject
    \/ \E ok \in BOOLEAN : init_elg_new(ok)
    \/ \E ok \in BOOLEAN : init_resolver_new(ok)
    \/ \E ok \in BOOLEAN : init_bootstrap_new(ok)
    \/ \E status \in {"napi_ok", "napi_generic_failure"} : init_register_functions(status)

Finalize ==
    \/ finalizer_begin
    \/ finalize_bootstrap_release
    \/ finalize_resolver_release
    \/ finalize_elg_release
    \/ finalize_join_all
    \/ finalize_unregister_log_subject
    \/ finalize_unregister_error_info
    \/ finalize_library_clean_up
    \/ finalize_logger_destroy
    \/ finalize_mem_release
    \/ \E r1, r2, r3 \in FinalizerReads : finalize_tracer_destroy(r1, r2, r3)

\* The process context: the module's loads and the finalizer.
NextCtx == ModuleInit \/ Finalize

SpecCtx == Init /\ [][NextCtx]_vars

\* Value marshaling: a value is converted to a buffer, and the buffer to a native
\* string or to a DataView.
NextMarshal ==
    \/ \E mem \in ConversionOutcomes \ {"str_oom"} : marshal_init_from_napi(mem)
    \/ \E mem \in ConversionOutcomes : string_new_from_napi(mem)
    \/ \E host \in {"napi_ok", "napi_generic_failure"} :
          create_dataview_from_byte_cursor(host)
    \/ \E status \in EnumeratedStatuses \cup OtherStatuses : status_to_str(status)

SpecMarshal == InitMarshal /\ [][NextMarshal]_vars

\* ========================================================= properties

\* The native threads whose call of aws_napi_queue_threadsafe_function returned ok.
Called == {t \in Threads : tpc[t] = "ok"}

\* No dispatch can follow: the process is gone, or every call of queue has returned
\* and the host thread has nothing queued and nothing in hand.
NoMoreDispatch ==
    \/ proc # "running"
    \/ /\ \A t \in Threads : tpc[t] \in {"idle", "ok", "failed"}
       /\ queue = <<>>
       /\ hpc = "idle"

\* C1: on a live handle, N calls of queue from N threads give exactly N dispatch
\* executions on the host thread, each of which releases one reference, and no
\* dispatch runs on a handle whose count is zero.
C1_ExactlyNDispatches ==
    /\ dispatchStarted <= Cardinality(Called)
    /\ NoMoreDispatch => dispatchStarted = Cardinality(Called)
    /\ dispatchReturned > 0 => lastRet.released = 1
    /\ hpc \in {"call", "release"} => thread_count > 0

\* C1, as far as the code has it: the same while the process has not been terminated.
C1_ExactlyNDispatchesWhileRunning == proc = "running" => C1_ExactlyNDispatches

\* C2 as claimed: acquire, release, unref and queue on a null handle all return ok
\* without calling into the host.
C2_NullHandleAllFour ==
    lastOp.handle = NULL => lastOp.status = "napi_ok" /\ ~lastOp.host_called

\* C2, amended: a call of acquire, release or unref with a null handle returns ok,
\* does not call into the host and changes no state; queue with a null handle does
\* call into the host.
C2_NullHandleThree ==
    [][ /\ (lastOp' # lastOp /\ lastOp'.handle = NULL
              /\ lastOp'.op \in {"acquire", "release", "unref"})
           => /\ lastOp'.status = "napi_ok"
              /\ ~lastOp'.host_called
              /\ UNCHANGED <<tsfnState, dropped, tpc, tstatus, ownerRefs, hostThreadVars,
                             procVars, ctxVars, marshalVars>>
        /\ (lastOp'.handle = NULL /\ lastOp'.op = "queue") => lastOp'.host_called
      ]_vars

C2_NullReleaseMade == lastOp.handle = NULL /\ lastOp.op = "release"

\* C3: every dispatch that returned released exactly one reference, whether the host
\* callable succeeded, threw, or failed with no exception pending.
C3_DispatchReleasesExactlyOne == dispatchReturned > 0 => lastRet.released = 1

C3_FailedDispatchReturned ==
    /\ dispatchReturned > 0
    /\ lastRet.call_status = "napi_pending_exception"
    /\ lastRet.released = 1

\* The invocations that hold a reference: acquired for a call of queue that has not
\* returned, queued, taken from the queue undispatched, or being dispatched.
InFlight ==
    Cardinality({t \in Threads : tpc[t] = "acquired"}) + Len(queue) + dropped
    + (IF hpc = "idle" THEN 0 ELSE 1)

\* C4: the reference count is the owners' references plus the invocations queued and
\* not yet dispatched to completion; a call of queue that returned a status other
\* than ok holds none.
C4_CountIsOwnersPlusInFlight == thread_count = ownerRefs + InFlight

C4_QueueRefused ==
    \E t \in Threads : tpc[t] = "failed" /\ tstatus[t] = "napi_closing" /\ thread_count > 0

\* C5: a dispatch returns the call's failure status when the call failed and the
\* release's status when it succeeded, and no dispatch terminates the process.
C5_DispatchStatusAndNoTermination ==
    /\ dispatchReturned > 0 =>
          /\ lastRet.call_status # "napi_ok" =>
                lastRet.status = lastRet.call_status /\ lastRet.status # "napi_ok"
          /\ lastRet.call_status = "napi_ok" => lastRet.status = lastRet.release_status
    /\ ~(proc = "aborted" /\ abortSite = "s_handle_failed_callback")

\* An entry that reports a failed extraction.
ExtractionFailures == {"message_failed", "stack_failed", "tostring_failed"}

\* C6 as claimed: after a failed call, no exception is pending when dispatch returns;
\* with an exception the handler logged (unless it logged that an extraction failed)
\* the function, the message and the stack trace, in this order, and without one
\* the engine's error information only.
C6_MessageAndStackForEveryException ==
    (dispatchReturned > 0 /\ lastRet.call_status # "napi_ok") =>
        /\ ~lastRet.pending
        /\ lastRet.captured = "none" => lastRet.logs = <<"extended_error_info">>
        /\ (/\ lastRet.captured # "none"
            /\ \A i \in 1..Len(lastRet.logs) : lastRet.logs[i] \notin ExtractionFailures)
              => lastRet.logs = <<"Calling", "Error", "Stack">>

FunctionText == {<<>>, <<"Calling">>}
ErrorReports ==
    {f \o r : f \in FunctionText,
              r \in {<<"Error", "Stack">>, <<"Error", "stack_failed">>, <<"message_failed">>}}
OtherReports ==
    {f \o r : f \in FunctionText, r \in {<<"Error">>, <<"tostring_failed">>}}

\* C6, amended: after a failed call no exception is pending when dispatch returns.
\* With an exception, the handler logged the function's text first (unless it could
\* not be extracted); for an Error, then the message and then the stack trace, a
\* failed extraction being logged in the entry's place and ending the report; for a
\* thrown value that is no Error, then its string form or the failure to extract
\* it, and no stack trace. Without an exception it logged the engine's error
\* information and nothing else.
C6_FailureReport ==
    (dispatchReturned > 0 /\ lastRet.call_status # "napi_ok") =>
        /\ ~lastRet.pending
        /\ lastRet.captured = "none" => lastRet.logs = <<"extended_error_info">>
        /\ lastRet.captured = "Error" => lastRet.logs \in ErrorReports
        /\ lastRet.captured = "other" => lastRet.logs \in OtherReports

C6_ErrorFullyReported ==
    /\ dispatchReturned > 0
    /\ lastRet.captured = "Error"
    /\ lastRet.logs = <<"Calling", "Error", "Stack">>

\* C7: whenever the handler returned, it had logged at least one error entry, and the
\* dispatch invoked the host callable once only.
C7_FailureIsLoggedAndNotRetried ==
    /\ (hpc = "release" /\ call_status # "napi_ok") => Len(logs) >= 1 /\ calls = 1
    /\ (dispatchReturned > 0 /\ lastRet.call_status # "napi_ok")
          => Len(lastRet.logs) >= 1 /\ lastRet.calls = 1

C7_OnlyTheFailureLogged ==
    /\ dispatchReturned > 0
    /\ lastRet.captured = "other"
    /\ lastRet.logs = <<"tostring_failed">>

\* The last entry of events that begins a run of NAPI_MODULE_INIT or of the finalizer.
LastBegin ==
    CHOOSE i \in 0..Len(events) :
        /\ i > 0 => events[i][1] = "begin"
        /\ \A j \in (i + 1)..Len(events) : events[j][1] # "begin"

\* The run that is under way or was the last to end, and what it did.
RunKind == IF LastBegin = 0 THEN "none" ELSE events[LastBegin][2]
Run == SubSeq(events, LastBegin + 1, Len(events))

Names(evs) == [i \in 1..Len(evs) |-> evs[i][2]]
Reverse(seq) == [i \in 1..Len(seq) |-> seq[Len(seq) + 1 - i]]
IsPrefix(a, b) == Len(a) <= Len(b) /\ a = SubSeq(b, 1, Len(a))

CreationOrder == <<"allocator", "logger", "elg", "resolver", "bootstrap">>
TeardownOrder == <<"bootstrap", "resolver", "elg", "threads", "logger", "allocator">>

\* The process-wide resources this run constructed, in the order it did.
Made == Names(SelectSeq(Run, LAMBDA ev : ev[1] = "new" /\ ev[2] # "context"))

\* The finalizer has run or is running.
TornDown == \E i \in 1..Len(events) : events[i] = <<"begin", "finalize">>

\* A resource exists when an instance of it is live. Once the finalizer has run, the
\* allocator is taken to be the one aws_napi_get_allocator has cached.
Exists(r) == IF r = "allocator" /\ TornDown THEN s_allocator # NullAllocator
             ELSE live[r] >= 1

Torn == SelectSeq(Run, LAMBDA ev : ev[1] \in {"release", "join"})
\* Everything constructed so far, the context included, in the order of construction.
Created == Names(SelectSeq(events, LAMBDA ev : ev[1] = "new"))

\* C9: the finalizer releases bootstrap, resolver and event-loop group, then joins
\* the threads, then releases the logger and then the allocator state; what it
\* releases, it releases in the reverse of the order of construction.
C9_TeardownOrder ==
    RunKind = "finalize" =>
        /\ IsPrefix(Names(SelectSeq(Torn, LAMBDA ev : ev[2] # "context")), TeardownOrder)
        /\ IsPrefix(Names(SelectSeq(Torn, LAMBDA ev : ev[1] = "release")), Reverse(Created))

C9_AllReleased ==
    /\ RunKind = "finalize"
    /\ Names(SelectSeq(Torn, LAMBDA ev : ev[2] # "context")) = TeardownOrder

\* C10: none of context, logger, event-loop group, host resolver and client bootstrap
\* is constructed a second time while the first is live.
C10_NoSecondConstruction ==
    \A r \in {"context", "logger", "elg", "resolver", "bootstrap"} : live[r] <= 1

\* The finalizer has run to its end.
TeardownDone == TornDown /\ RunKind = "finalize" /\ ipc = Idle /\ proc = "running"

\* What the claim has a first resolution return for the configured tracing level.
AllocatorForLevel ==
    IF ~envLevel.set \/ envLevel.value \notin 1..2 THEN DefaultAllocator
    ELSE TracingAllocator(envLevel.value)

\* C11: the allocator first resolved is the default allocator when the level is
\* unset, out of [0,2] or 0, and a tracing allocator of level 1 or 2 when the level
\* is 1 or 2.
C11_AllocatorByLevel ==
    (built["allocator"] = 1 /\ ~TornDown) => s_allocator = AllocatorForLevel

\* The allocators constructed before any teardown.
ResolvedBeforeTeardown ==
    Cardinality({i \in 1..Len(events) :
                    /\ events[i] = <<"new", "allocator">>
                    /\ \A j \in 1..i : events[j] # <<"begin", "finalize">>})

\* C12: until teardown one allocator is resolved and no second one is made; the
\* cached allocator is never a destroyed tracing allocator; once teardown is done a
\* call of aws_napi_get_allocator returns what a new resolution gives.
C12_CachedUntilTeardown ==
    /\ ResolvedBeforeTeardown <= 1
    /\ s_allocator.kind = "tracer" => live["allocator"] >= 1
    /\ TeardownDone => aws_napi_get_allocator = resolve_allocator

\* C16: the log-subject list and the error-info list are never registered twice nor
\* unregistered more often than registered, are registered once the module is
\* loaded, and are not registered once teardown is done.
C16_ListsRegisteredOnce ==
    \A l \in {"log_subject", "error_info"} :
        /\ registered[l] \in {0, 1}
        /\ (RunKind = "init" /\ ipc = Idle /\ proc = "running") => registered[l] = 1
        /\ TeardownDone => registered[l] = 0

\* C19: the finalizer is never at a statement that reads a field of the context when
\* the context's memory has been released.
C19_NoReadAfterRelease ==
    (proc = "running" /\ ipc.fn = "finalize" /\ wrapped # <<>>
       /\ ctx_reads(s_napi_context_finalize_steps[ipc.i]) # {})
      => ~ctx[user_data].freed

\* C20: a non-null event-loop group or client bootstrap returned by the accessors
\* has been constructed and not released.
C20_AccessorsReturnLiveResources ==
    /\ aws_napi_get_node_elg # NullElg => live["elg"] >= 1
    /\ aws_napi_get_default_client_bootstrap # NullBootstrap => live["bootstrap"] >= 1

\* C18: when the handler took an exception and returned, a failed extraction of the
\* function's text was logged and ended the report (else the text is the first
\* entry), an entry that reports a failed extraction is the last one, and no
\* extraction terminated the process.
C18_ExtractionFailuresLoggedAndFinal ==
    /\ (dispatchReturned > 0 /\ lastRet.captured # "none") =>
          /\ \/ (lastRet.logs # <<>> /\ lastRet.logs[1] = "Calling")
             \/ lastRet.logs = <<"function_failed">>
          /\ \A i \in 1..Len(lastRet.logs) :
                lastRet.logs[i] \in ExtractionFailures => i = Len(lastRet.logs)
    /\ ~(proc = "aborted" /\ abortSite = "s_handle_failed_callback" /\ captured # "none")

\* C13: cleanup never hands borrowed memory to aws_mem_release and leaks no owned
\* memory: a buffer over the storage of an ArrayBuffer, a DataView or a typed array
\* has no allocator, and when aws_string_new_from_napi has returned, memory was
\* released exactly when the input was a text, and then the buffer's own.
C13_CleanupFreesOwnedOnly ==
    /\ "host" \notin released
    /\ (mpc = "inited" /\ temp_buf.buffer = "host") => temp_buf.allocator = NULL
    /\ mpc = "returned" =>
          released = IF node_str.type = "string" THEN {"heap"} ELSE {}

\* The host value kinds the conversion supports.
Supported(v) ==
    \/ v.type = "string"
    \/ v.type = "object" /\ v.kind \in {"arraybuffer", "dataview"}
    \/ v.type = "object" /\ v.kind = "typedarray" /\ v.atype \in 0..10

\* The bytes of a host value: the UTF-8 form of a text, else the storage.
OriginalBytes(v) == IF v.type = "string" THEN napi_get_value_string_utf8(v) ELSE storage(v)

\* A DataView was made of the buffer of a supported value.
RoundTripDone == mpc = "viewed" /\ mstatus = "napi_ok" /\ Supported(node_str)

\* C14 as claimed: the view made of the buffer holds the original bytes, and for a
\* text one terminator byte more.
C14_RoundTripTextGainsTerminator ==
    RoundTripDone =>
        view = IF node_str.type = "string" THEN Append(OriginalBytes(node_str), 0)
               ELSE OriginalBytes(node_str)

\* C14, amended: the view made of the buffer holds exactly the original bytes, for a
\* text too; the terminator of a text is in the buffer's capacity, after its length.
C14_RoundTripExact ==
    RoundTripDone =>
        /\ view = OriginalBytes(node_str)
        /\ node_str.type = "string" =>
              /\ temp_buf.capacity = temp_buf.len + 1
              /\ temp_buf.bytes[temp_buf.capacity] = 0

C14_TextRoundTripped ==
    /\ RoundTripDone
    /\ node_str.type = "string"
    /\ node_str.data = <<97, 233>>
    /\ view = <<97, 195, 169>>

\* C15: for a typed array of a supported kind the buffer's length and capacity are
\* the element count times 1, 2, 4 or 8 by kind; a value that is no text,
\* ArrayBuffer, DataView or typed array of a supported kind gives napi_invalid_arg.
C15_TypedArrayLengthAndInvalidArg ==
    mpc \in {"inited", "failed"} =>
        /\ (node_str.kind = "typedarray" /\ Supported(node_str)) =>
              /\ mstatus = "napi_ok"
              /\ temp_buf.len = Len(node_str.data) *
                    (CASE node_str.atype \in {0, 1, 2} -> 1
                       [] node_str.atype \in {3, 4} -> 2
                       [] node_str.atype \in {5, 6, 7} -> 4
                       [] node_str.atype \in {8, 9, 10} -> 8)
              /\ temp_buf.capacity = temp_buf.len
        /\ ~Supported(node_str) => mstatus = "napi_invalid_arg"

\* C17: a call of aws_napi_status_to_str gives "UNKNOWN" for every status it has no
\* case for, gives a text for every status, and changes nothing else.
C17_UnknownForOtherStatuses ==
    [][ status_text' # status_text =>
           /\ status_text'.status \notin EnumeratedStatuses => status_text'.str = "UNKNOWN"
           /\ status_text'.str # "none"
           /\ UNCHANGED <<mpc, node_str, temp_buf, mstatus, string, view, released,
                          dispatchVars, procVars, ctxVars>>
      ]_vars

C17_UnknownReturned ==
    status_text.status = "napi_date_expected" /\ status_text.str = "UNKNOWN"

\* C21: when s_handle_failed_callback has returned, every native string it made
\* (function text, message, stack trace, string form of the thrown value) has been
\* destroyed: as many native strings are live after the handler as before it.
C21_HandlerDestroysItsStrings ==
    (hpc = "release" /\ call_status # "napi_ok") => native_strings = {}

\* The memory allocated for the buffer of the conversion and not released.
BufferMemory ==
    IF temp_buf.buffer = "heap" /\ "heap" \notin released THEN {"heap"} ELSE {}

\* C22: when aws_byte_buf_init_from_napi has returned a status other than napi_ok, no
\* native memory is allocated on behalf of the buffer, also when the host failed to
\* decode the text after the buffer was allocated.
C22_FailedConversionHoldsNoMemory ==
    (mpc = "failed" /\ mstatus # "napi_ok") => BufferMemory = {}

\* What a status text has after the name of its status.
TextTails == {"", ": an invalid argument was supplied"}

\* C23: the text aws_napi_status_to_str gave for a status it has a case for is the
\* text of no other such status, and for a status other than napi_ok it begins
\* with the name of that status.
C23_DistinctTextsNamingTheStatus ==
    status_text.status \in EnumeratedStatuses =>
        /\ \A other \in EnumeratedStatuses \ {status_text.status} :
              aws_napi_status_to_str(other) # status_text.str
        /\ status_text.status # "napi_ok" =>
              \E tail \in TextTails : status_text.str = status_text.status \o tail

====
